---- MODULE Spec2Model ----
(***************************************************************************)
(* Model of the concurrency layer of livechat/go-mysql: the Client facade  *)
(* (Begin, Exec, Query, MultiQuery), the admission relay, the in-progress  *)
(* limit check, the per-call timeout, the stats counters and the sample    *)
(* channel with its consumer, and the Transaction (Exec, Query,            *)
(* MultiQuery, Commit, Rollback, Done, close).                             *)
(*                                                                         *)
(* Every goroutine that calls the client is a process p with a call frame  *)
(* call[p]; one action is one step of a handler between two accesses to    *)
(* shared state (an atomic counter, a channel, the driver).                *)
(*                                                                         *)
(* Left out, because no modelled state depends on them: the logger and the *)
(* tracing spans, the measured durations, the statement text and its       *)
(* arguments, the rows' contents, and the wsrep_sync_wait statements of    *)
(* Query.  The driver is an oracle that answers each call with one of its  *)
(* possible outcomes; a result set is known by its position in the rows.   *)
(***************************************************************************)
EXTENDS Integers, Sequences, FiniteSets, TLC

\* ---------------------------------------------------------------- bounds
NumProcs == 2          \* concurrent caller goroutines
MaxCalls == 2          \* calls made in one run (all callers together)
MaxRetry == 1          \* RetryOnDeadlockCount ranges over 0..MaxRetry
NumObs == 2            \* observer goroutines of one transaction
TxCalls == 3           \* calls made by the owner of a transaction
MaxConsumed == 2       \* samples the consumer of SamplesChan() receives
MaxSets == 3           \* result sets in the rows of one driver answer

\* ------------------------------------------------------ program constants
ErrMySQLDeadlock == 1213
ErrMySQLDupEntry == 1062
RelayMultiplier == 10
SampleChanCap == 100
DefaultMaxQueuedQueries == 10000
DefaultTimeout == 10

Procs == 1..NumProcs
Observers == 1..NumObs
Clients == {"primary", "replica"}
NoTx == 0
NoReplica == "none"

\* ---------------------------------------------------------------- errors
Nil == [kind |-> "nil"]
MySQLError(no) == [kind |-> "mysql", number |-> no]
ErrQueueOverloaded == [kind |-> "errors", msg |-> "queue overloaded"]
ErrRollback == [kind |-> "errors", msg |-> "tx rollback"]
ErrTxDone == [kind |-> "errors", msg |-> "sql: transaction has already been committed or rolled back"]
ErrBadConn == [kind |-> "errors", msg |-> "driver: bad connection"]
ErrScan == [kind |-> "errors", msg |-> "sql: scan error"]
ErrDeadlineExceeded == [kind |-> "errors", msg |-> "context deadline exceeded"]

IsErrorCode(err, no) == err.kind = "mysql" /\ err.number = no

\* what the driver can answer to a statement, and to BEGIN/COMMIT/ROLLBACK
StmtOutcomes == {Nil, MySQLError(ErrMySQLDeadlock), MySQLError(ErrMySQLDupEntry)}
TxOutcomes == {Nil, ErrBadConn}
DecodeOutcomes == {Nil, ErrScan}

\* ---------------------------------------------------------------- config
NewConfig(retry, count, queued, open) ==
  [RetryOnDeadlock |-> retry, RetryOnDeadlockCount |-> count,
   MaxQueuedQueries |-> queued, MaxOpenConns |-> open,
   Timeout |-> DefaultTimeout]

\* the configurations SetConfig is called with: for the concurrent callers
\* the queue limit and the pool size vary, for the single caller the retry
\* policy does
LimitConfigs ==
  { NewConfig(FALSE, 0, queued, open) : queued \in {0, 1}, open \in {0, 1} }
RetryConfigs ==
  { NewConfig(retry, count, 1, 1) : retry \in BOOLEAN, count \in 0..MaxRetry }

VARIABLES
  config,               \* Client.config (the same Config for primary and replica)
  replica,              \* Client.replica of the primary: NoReplica or "replica"
  relaySize,            \* cap(relay.relayChan) of each client
  relayChan,            \* len(relay.relayChan) of each client
  inProgressQueries,    \* stats.inProgressQueries of each client
  totalSuccessQueries,  \* stats.totalSuccessQueries of each client
  totalFailedQueries,   \* stats.totalFailedQueries of each client
  sampleChan,           \* len(stats.sampleChan) of each client
  txs,                  \* the Transaction objects returned by Begin, in order
  call,                 \* the call frame of each caller goroutine
  obs,                  \* the observer goroutines
  active,               \* the callers that run
  budget,               \* calls that may still be started
  consumed              \* samples received from SamplesChan() so far

vars == <<config, replica, relaySize, relayChan, inProgressQueries,
          totalSuccessQueries, totalFailedQueries, sampleChan, txs, call,
          obs, active, budget, consumed>>

clientVars == <<relayChan, inProgressQueries, totalSuccessQueries,
                totalFailedQueries, sampleChan>>
\* what no handler changes
fixedVars == <<config, replica, relaySize, active, consumed>>

\* ------------------------------------------------------------ call frames
IdleCall ==
  [pc |-> "idle", op |-> "none", cl |-> "primary", ctx |-> NoTx, tx |-> NoTx,
   err |-> Nil, rerr |-> Nil, i |-> 0, seen |-> 0, tries |-> <<>>,
   relayOps |-> 0, idx |-> 0, counted |-> "none", expired |-> FALSE,
   sets |-> 0, results |-> <<>>, sleeps |-> 0, others |-> 0, offered |-> 0]

\* an observer: the goroutine that calls Done() once and receives from the
\* channel; early/late record when it registered
IdleObs == [pc |-> "idle", tx |-> NoTx, got |-> <<>>, early |-> FALSE, late |-> FALSE]

\* SetConfig: the relay is sized MaxOpenConns * 10
SetRelaySize(cfg) == cfg.MaxOpenConns * RelayMultiplier

\* db.Stats().MaxOpenConnections after db.SetMaxOpenConns(cfg.MaxOpenConns)
MaxOpenConnections(cfg) == IF cfg.MaxOpenConns < 0 THEN 0 ELSE cfg.MaxOpenConns

InitWith(cfgs, reps, act, calls) ==
  /\ config \in cfgs
  /\ replica \in reps
  /\ relaySize = [c \in Clients |-> SetRelaySize(config)]
  /\ relayChan = [c \in Clients |-> 0]
  /\ inProgressQueries = [c \in Clients |-> 0]
  /\ totalSuccessQueries = [c \in Clients |-> 0]
  /\ totalFailedQueries = [c \in Clients |-> 0]
  /\ sampleChan = [c \in Clients |-> 0]
  /\ txs = <<>>
  /\ call = [p \in Procs |-> IdleCall]
  /\ obs = [o \in Observers |-> IdleObs]
  /\ active = act
  /\ budget = calls
  /\ consumed = 0

Init == InitWith(LimitConfigs, {NoReplica}, Procs, MaxCalls)

\* ------------------------------------------------------------- operators
\* the context carries a transaction: ctx.Value("tx").(*Transaction)
\* (variants that never find one)
BeginCtxNever(ctx) == FALSE
TxCtxNever(ctx) == FALSE

BeginCtxTx(ctx) == ctx # NoTx
TxCtxCarried(ctx) == ctx # NoTx

\* Client.limitReached, the comparison made on the loaded counter
LimitReached(loaded, cfg) ==
  IF loaded - MaxOpenConnections(cfg) > cfg.MaxQueuedQueries
    THEN ErrQueueOverloaded ELSE Nil

\* (a variant that ignores RetryOnDeadlock)
RetryBudgetAlways(cfg) == 1 + cfg.RetryOnDeadlockCount

\* the loop counter of Exec, Query and MultiQuery before the first attempt
RetryBudget(cfg) ==
  IF cfg.RetryOnDeadlock THEN 1 + cfg.RetryOnDeadlockCount ELSE 1

\* (a variant that queues the sample whatever the length)
SampleSendAlways(len) == len + 1

\* stats.sample: a non-blocking send to the sample channel
SampleSend(len) == IF len < SampleChanCap THEN len + 1 ELSE len

\* relay.conditionalEnd(&err): the test is on the pointer, which is never nil
ConditionalEndReleases(err) == TRUE

Statements == {"Exec", "Query", "MultiQuery"}

\* Transaction.Exec, Transaction.Query, Transaction.MultiQuery
TxStatements == {"TxExec", "TxQuery", "TxMultiQuery"}

\* the handlers that read every result set of the rows
MultiStatements == {"MultiQuery", "TxMultiQuery"}

\* how many result sets the rows of a driver answer can hold; Query reads
\* the first only, Exec gets no rows
SetsOf(op, out) ==
  IF op \in MultiStatements /\ out = Nil THEN 1..MaxSets
  ELSE IF op \in {"Query", "TxQuery"} /\ out = Nil THEN {1} ELSE {0}

\* (a variant that stops after the first result set)
NoNextResultSet(idx, sets) == FALSE

\* rows.NextResultSet() with the rows at result set idx of sets
NextResultSet(idx, sets) == idx < sets

\* MultiResults.Count
Count(results) == Len(results)

\* caller p can enter a handler; the callers are alike, so they are numbered
\* in the order of their first call
Ready(p) ==
  /\ p \in active
  /\ call[p].pc \in {"idle", "done"}
  /\ budget > 0
  /\ \A q \in Procs : q < p => call[q].pc # "idle"

SetCall(p, f) == call' = [call EXCEPT ![p] = f]


\* a Transaction object: the client whose relay and stats it refers to, the
\* goroutine that began it, the state of its sql.Tx, its observer channels;
\* and, for the record, how often Commit and Rollback released a ticket and
\* decremented the counter for it, and the values they handed to close
NewTransaction(c, p) ==
  [client |-> c, owner |-> p, sqlDone |-> FALSE, done |-> <<>>,
   ends |-> 0, decs |-> 0, term |-> <<>>]

\* ------------------------------------------------------------- the relay
\* (a variant without the default branch: a plain receive)
EndOutcomesBlocking(c) ==
  IF relayChan[c] > 0 THEN {[kind |-> "ticket"]} ELSE {}

\* relay.end() is a receive with a default branch: it takes a buffered
\* ticket, or meets a sender waiting on an unbuffered channel, or gives up
EndOutcomes(c) ==
  IF relayChan[c] > 0
    THEN {[kind |-> "ticket"]}
    ELSE {[kind |-> "default"]} \cup
         {[kind |-> "sender", proc |-> q] :
             q \in {r \in Procs : /\ relaySize[c] = 0
                                  /\ call[r].pc = "start"
                                  /\ call[r].cl = c}}

\* where a call continues once it holds a ticket
LoopNext(i) == IF i > 0 THEN "driver" ELSE "sample"
AfterStart(f) == IF f.op \in Statements THEN LoopNext(f.i) ELSE "driver"

Admit(f) == [f EXCEPT !.pc = AfterStart(f), !.relayOps = @ + 1]

\* p runs relay.end() on client c and continues with frame f
RelayEnd(p, c, f) ==
  \E o \in EndOutcomes(c) :
    /\ relayChan' = IF o.kind = "ticket"
                      THEN [relayChan EXCEPT ![c] = @ - 1] ELSE relayChan
    /\ call' = IF o.kind = "sender"
                 THEN [call EXCEPT ![p] = f, ![o.proc] = Admit(@)]
                 ELSE [call EXCEPT ![p] = f]

\* ------------------------------------------------- entering the handlers
\* Client.Exec, Client.Query, Client.MultiQuery up to limitReached
\* (Query runs on the replica when one is attached)
StmtClient(op) == IF op = "Query" /\ replica # NoReplica THEN replica ELSE "primary"

CallStmt(p) ==
  /\ Ready(p)
  /\ \E op \in Statements :
       SetCall(p, [IdleCall EXCEPT !.pc = "limit_inc", !.op = op,
                                   !.cl = StmtClient(op)])
  /\ budget' = budget - 1
  /\ UNCHANGED <<fixedVars, clientVars, txs, obs>>

\* Client.Begin up to limitReached: a read-only Begin runs on the replica,
\* and a transaction found in the context is returned as it is
BeginClient(ro) == IF ro /\ replica # NoReplica THEN replica ELSE "primary"

CallBegin(p) ==
  /\ Ready(p)
  /\ \E ro \in BOOLEAN, ctx \in {NoTx} \cup DOMAIN txs :
       SetCall(p, IF BeginCtxTx(ctx)
                    THEN [IdleCall EXCEPT !.pc = "done", !.op = "Begin",
                                          !.cl = BeginClient(ro),
                                          !.ctx = ctx, !.tx = ctx]
                    ELSE [IdleCall EXCEPT !.pc = "limit_inc", !.op = "Begin",
                                          !.cl = BeginClient(ro), !.ctx = ctx])
  /\ budget' = budget - 1
  /\ UNCHANGED <<fixedVars, clientVars, txs, obs>>

\* Transaction.Commit and Transaction.Rollback up to the driver call: with
\* a transaction in the context they return nil at once
CallEnd(p) ==
  /\ Ready(p)
  /\ \E op \in {"Commit", "Rollback"}, ctx \in {NoTx} \cup DOMAIN txs,
        t \in {u \in DOMAIN txs : txs[u].owner = p} :
       SetCall(p, IF TxCtxCarried(ctx)
                    THEN [IdleCall EXCEPT !.pc = "done", !.op = op, !.ctx = ctx,
                                          !.cl = txs[t].client, !.tx = t]
                    ELSE [IdleCall EXCEPT !.pc = "driver", !.op = op, !.ctx = ctx,
                                          !.cl = txs[t].client, !.tx = t])
  /\ budget' = budget - 1
  /\ UNCHANGED <<fixedVars, clientVars, txs, obs>>

\* Transaction.Exec, Transaction.Query, Transaction.MultiQuery up to the
\* driver call: no limit check and no relay
CallTxStmt(p) ==
  /\ Ready(p)
  /\ \E op \in TxStatements, t \in {u \in DOMAIN txs : txs[u].owner = p} :
       SetCall(p, [IdleCall EXCEPT !.pc = "driver", !.op = op,
                                   !.cl = txs[t].client, !.tx = t])
  /\ budget' = budget - 1
  /\ UNCHANGED <<fixedVars, clientVars, txs, obs>>

\* ------------------------------------------------------- limitReached
\* atomic.AddInt64(c.s.inProgressQueries, 1)
LimitInc(p) ==
  /\ call[p].pc = "limit_inc"
  /\ inProgressQueries' = [inProgressQueries EXCEPT ![call[p].cl] = @ + 1]
  /\ SetCall(p, [call[p] EXCEPT !.pc = "limit_chk"])
  /\ UNCHANGED <<fixedVars, relayChan, totalSuccessQueries, totalFailedQueries,
                 sampleChan, txs, obs, budget>>

\* (a variant that goes on to the relay whatever limitReached returned)
AfterLimitNoReturn(op, e) == "start"

\* where a handler continues after limitReached returned e
AfterLimit(op, e) ==
  IF e # Nil THEN (IF op = "Begin" THEN "d_begin" ELSE "d_dec") ELSE "start"

\* the other calls on client c that limitReached has let through and that
\* have not yet decremented the counter, and the transactions of c that no
\* Commit or Rollback has decremented it for
LetThrough(c, p) ==
  {q \in Procs \ {p} :
     /\ call[q].cl = c
     /\ call[q].op \in Statements \cup {"Begin"}
     /\ call[q].pc \in {"start", "driver", "sample", "decode", "d_end",
                        "d_dec", "d_cond", "d_begin"}
     /\ call[q].rerr # ErrQueueOverloaded}
Undecremented(c) == {t \in DOMAIN txs : txs[t].client = c /\ txs[t].decs = 0}

\* the load and the comparison under c.mu.  Exec, Query and MultiQuery
\* assign the result to err; Begin declares a new err inside the if, so the
\* err its deferred function reads stays nil.  For the record, the frame
\* keeps the count loaded and how many calls and transactions were really
\* in progress
LimitChk(p) ==
  /\ call[p].pc = "limit_chk"
  /\ LET f == call[p]
         loaded == inProgressQueries[f.cl]
         e == LimitReached(loaded, config)
     IN SetCall(p, [f EXCEPT !.seen = loaded,
                             !.others = Cardinality(LetThrough(f.cl, p))
                                        + Cardinality(Undecremented(f.cl)),
                             !.err = IF f.op = "Begin" THEN Nil ELSE e,
                             !.rerr = e,
                             !.i = IF f.op = "Begin" THEN 0 ELSE RetryBudget(config),
                             !.pc = AfterLimit(f.op, e)])
  /\ UNCHANGED <<fixedVars, clientVars, txs, obs, budget>>

\* (a variant that never waits)
RelayStartNoWait(p) ==
  /\ call[p].pc = "start"
  /\ relayChan' = [relayChan EXCEPT ![call[p].cl] = @ + 1]
  /\ SetCall(p, Admit(call[p]))
  /\ UNCHANGED <<fixedVars, inProgressQueries, totalSuccessQueries,
                 totalFailedQueries, sampleChan, txs, obs, budget>>

\* relay.start(): a send on relayChan, which waits while the buffer is full
RelayStart(p) ==
  /\ call[p].pc = "start"
  /\ relayChan[call[p].cl] < relaySize[call[p].cl]
  /\ relayChan' = [relayChan EXCEPT ![call[p].cl] = @ + 1]
  /\ SetCall(p, Admit(call[p]))
  /\ UNCHANGED <<fixedVars, inProgressQueries, totalSuccessQueries,
                 totalFailedQueries, sampleChan, txs, obs, budget>>


\* ------------------------------------------------------- the driver calls
\* one pass of the loop  for ; i > 0; i--  of Exec, Query and MultiQuery:
\* a deadlock sleeps RetryOnDeadlockDelay and continues (i--), anything
\* else breaks; a context past its deadline makes the driver answer with
\* the context's error
Attempt(p) ==
  /\ call[p].pc = "driver"
  /\ call[p].op \in Statements
  /\ \E out \in (IF call[p].expired THEN {ErrDeadlineExceeded} ELSE StmtOutcomes) :
     \E k \in SetsOf(call[p].op, out) :
       LET f == call[p]
           retry == IsErrorCode(out, ErrMySQLDeadlock)
       IN SetCall(p, [f EXCEPT !.err = out,
                               !.sets = k,
                               !.tries = Append(@, out),
                               !.sleeps = IF retry THEN @ + 1 ELSE @,
                               !.i = IF retry THEN f.i - 1 ELSE f.i,
                               !.pc = IF retry THEN LoopNext(f.i - 1) ELSE "sample"])
  /\ UNCHANGED <<fixedVars, clientVars, txs, obs, budget>>

\* c.db.BeginTx
BeginTx(p) ==
  /\ call[p].pc = "driver"
  /\ call[p].op = "Begin"
  /\ \E out \in TxOutcomes :
       SetCall(p, [call[p] EXCEPT !.err = out, !.tries = Append(@, out),
                                  !.pc = "sample"])
  /\ UNCHANGED <<fixedVars, clientVars, txs, obs, budget>>

\* t.tx.Commit() and t.tx.Rollback(): a sql.Tx that is already finished
\* answers ErrTxDone, and any answer leaves it finished
EndTx(p) ==
  /\ call[p].pc = "driver"
  /\ call[p].op \in {"Commit", "Rollback"}
  /\ \E out \in (IF txs[call[p].tx].sqlDone THEN {ErrTxDone} ELSE TxOutcomes) :
       SetCall(p, [call[p] EXCEPT !.err = out, !.tries = Append(@, out),
                                  !.pc = "sample"])
  /\ txs' = [txs EXCEPT ![call[p].tx].sqlDone = TRUE]
  /\ UNCHANGED <<fixedVars, clientVars, obs, budget>>

\* (a variant that tries again after a deadlock)
TxAfterAttemptRetry(out) ==
  IF IsErrorCode(out, ErrMySQLDeadlock) THEN "driver" ELSE "sample"

\* where Transaction.Exec, Query and MultiQuery continue after the driver
\* call: there is no loop
TxAfterAttempt(out) == "sample"

\* what t.tx.ExecContext and t.tx.QueryContext can answer: the context's
\* error past the deadline, ErrTxDone when the sql.Tx is finished
TxStmtOutcomes(f) ==
  IF f.expired THEN {ErrDeadlineExceeded}
  ELSE IF txs[f.tx].sqlDone THEN {ErrTxDone} ELSE StmtOutcomes

TxAttempt(p) ==
  /\ call[p].pc = "driver"
  /\ call[p].op \in TxStatements
  /\ \E out \in TxStmtOutcomes(call[p]) :
     \E k \in SetsOf(call[p].op, out) :
       SetCall(p, [call[p] EXCEPT !.err = out, !.sets = k,
                                  !.tries = Append(@, out),
                                  !.pc = TxAfterAttempt(out)])
  /\ UNCHANGED <<fixedVars, clientVars, txs, obs, budget>>

\* ------------------------------------------------------------ the sample
\* where a handler continues after c.s.sample
AfterSample(f) ==
  CASE f.op = "Exec" -> "d_end"
    [] f.op \in {"Query", "MultiQuery"} -> IF f.err # Nil THEN "d_end" ELSE "decode"
    [] f.op = "Begin" -> "d_cond"
    [] f.op = "TxExec" -> IF f.err # Nil THEN "d_cls" ELSE "sample2"
    [] f.op \in {"TxQuery", "TxMultiQuery"} -> IF f.err # Nil THEN "d_cls" ELSE "decode"
    [] OTHER -> "close"

Sample(p) ==
  /\ call[p].pc = "sample"
  /\ sampleChan' = [sampleChan EXCEPT ![call[p].cl] = SampleSend(@)]
  /\ SetCall(p, [call[p] EXCEPT !.rerr = call[p].err, !.idx = 1,
                                !.offered = @ + 1,
                                !.pc = AfterSample(call[p])])
  /\ UNCHANGED <<fixedVars, relayChan, inProgressQueries, totalSuccessQueries,
                 totalFailedQueries, txs, obs, budget>>

\* the second t.s.sample of Transaction.Exec, after newMeta
Sample2(p) ==
  /\ call[p].pc = "sample2"
  /\ sampleChan' = [sampleChan EXCEPT ![call[p].cl] = SampleSend(@)]
  /\ SetCall(p, [call[p] EXCEPT !.pc = "d_cls", !.offered = @ + 1])
  /\ UNCHANGED <<fixedVars, relayChan, inProgressQueries, totalSuccessQueries,
                 totalFailedQueries, txs, obs, budget>>

\* the deferred functions a handler runs first when it returns: the client
\* handlers release the ticket, the transaction handlers hold none
AfterDecode(f) == IF f.op \in TxStatements THEN "d_cls" ELSE "d_end"

\* newResultsFromSqlRows on the result set the rows are at (idx, which
\* the sample step left at 1).  Query assigns its error to err and is done;
\* MultiQuery declares a new err inside the for block and only returns it,
\* appends the Results, and goes round while rows.NextResultSet()
Decode(p) ==
  /\ call[p].pc = "decode"
  /\ \E out \in DecodeOutcomes :
       LET f == call[p]
           again == /\ f.op \in MultiStatements
                    /\ out = Nil
                    /\ NextResultSet(f.idx, f.sets)
       IN SetCall(p, [f EXCEPT !.err = IF f.op \in {"Query", "TxQuery"}
                                         THEN out ELSE @,
                               !.rerr = out,
                               !.results = IF out = Nil THEN Append(@, f.idx)
                                                        ELSE <<>>,
                               !.idx = IF again THEN @ + 1 ELSE @,
                               !.pc = IF again THEN "decode" ELSE AfterDecode(f)])
  /\ UNCHANGED <<fixedVars, clientVars, txs, obs, budget>>

\* ---------------------------------------------------- deferred functions
IsEnd(f) == f.op \in {"Commit", "Rollback"}

\* defer c.r.end() of Exec, Query, MultiQuery; defer t.r.end() of Commit
\* and Rollback
DeferEnd(p) ==
  /\ call[p].pc = "d_end"
  /\ RelayEnd(p, call[p].cl, [call[p] EXCEPT !.pc = "d_dec", !.relayOps = @ + 1])
  /\ txs' = IF IsEnd(call[p]) THEN [txs EXCEPT ![call[p].tx].ends = @ + 1] ELSE txs
  /\ UNCHANGED <<fixedVars, inProgressQueries, totalSuccessQueries,
                 totalFailedQueries, sampleChan, obs, budget>>

\* atomic.AddInt64(inProgressQueries, -1): the first statement of the
\* deferred function of Exec, Query, MultiQuery; the defer that runs last
\* in Commit and Rollback
DeferDec(p) ==
  /\ call[p].pc = "d_dec"
  /\ inProgressQueries' = [inProgressQueries EXCEPT ![call[p].cl] = @ - 1]
  /\ SetCall(p, [call[p] EXCEPT !.pc = IF IsEnd(call[p]) THEN "done" ELSE "d_cls"])
  /\ txs' = IF IsEnd(call[p]) THEN [txs EXCEPT ![call[p].tx].decs = @ + 1] ELSE txs
  /\ UNCHANGED <<fixedVars, relayChan, totalSuccessQueries, totalFailedQueries,
                 sampleChan, obs, budget>>

\* the success/failure classification on *err
DeferClassify(p) ==
  /\ call[p].pc = "d_cls"
  /\ IF call[p].err = Nil
       THEN /\ totalSuccessQueries' = [totalSuccessQueries EXCEPT ![call[p].cl] = @ + 1]
            /\ UNCHANGED totalFailedQueries
       ELSE /\ totalFailedQueries' = [totalFailedQueries EXCEPT ![call[p].cl] = @ + 1]
            /\ UNCHANGED totalSuccessQueries
  /\ SetCall(p, [call[p] EXCEPT !.pc = IF IsEnd(call[p]) THEN "d_end" ELSE "done",
                                !.counted = IF call[p].err = Nil
                                              THEN "success" ELSE "failed"])
  /\ UNCHANGED <<fixedVars, relayChan, inProgressQueries, sampleChan, txs, obs,
                 budget>>

\* defer c.r.conditionalEnd(&err) of Begin
ConditionalEnd(p) ==
  /\ call[p].pc = "d_cond"
  /\ IF ConditionalEndReleases(call[p].err)
       THEN RelayEnd(p, call[p].cl, [call[p] EXCEPT !.pc = "d_begin", !.relayOps = @ + 1])
       ELSE /\ SetCall(p, [call[p] EXCEPT !.pc = "d_begin"])
            /\ UNCHANGED relayChan
  /\ UNCHANGED <<fixedVars, inProgressQueries, totalSuccessQueries,
                 totalFailedQueries, sampleChan, txs, obs, budget>>

\* the first defer of Begin (the counter is decremented when *e != nil),
\* then Begin returns: newTransaction when BeginTx succeeded
BeginReturn(p) ==
  /\ call[p].pc = "d_begin"
  /\ inProgressQueries' = IF call[p].err # Nil
                            THEN [inProgressQueries EXCEPT ![call[p].cl] = @ - 1]
                            ELSE inProgressQueries
  /\ IF call[p].rerr = Nil
       THEN /\ txs' = Append(txs, NewTransaction(call[p].cl, p))
            /\ SetCall(p, [call[p] EXCEPT !.pc = "done", !.tx = Len(txs) + 1])
       ELSE /\ SetCall(p, [call[p] EXCEPT !.pc = "done"])
            /\ UNCHANGED txs
  /\ UNCHANGED <<fixedVars, relayChan, totalSuccessQueries, totalFailedQueries,
                 sampleChan, obs, budget>>

\* ------------------------------------------------------------- observers
\* (a variant in which Rollback hands its own error to close, as Commit does)
CloseValueAsCommit(f) == f.err

\* what Commit and Rollback hand to close
CloseValue(f) ==
  IF f.op = "Commit" THEN f.err ELSE IF f.err # Nil THEN f.err ELSE ErrRollback

\* the goroutines inside close(t), which holds t.mu.RLock
Closing(t) == {p \in Procs : call[p].pc = "close" /\ call[p].tx = t}

\* (a variant whose send has no default branch: it waits for the observer)
CloseBlocking(p) ==
  /\ call[p].pc = "close"
  /\ LET f == call[p]
         t == f.tx
         chans == txs[t].done
     IN IF f.idx > Len(chans)
          THEN /\ SetCall(p, [f EXCEPT !.pc = "d_cls"])
               /\ txs' = [txs EXCEPT ![t].term = Append(@, CloseValue(f))]
               /\ UNCHANGED obs
          ELSE /\ obs[chans[f.idx]].pc = "recv"
               /\ SetCall(p, [f EXCEPT !.idx = @ + 1])
               /\ obs' = [obs EXCEPT ![chans[f.idx]] =
                           [@ EXCEPT !.pc = "got",
                                     !.got = Append(@, CloseValue(f))]]
               /\ UNCHANGED txs
  /\ UNCHANGED <<fixedVars, clientVars, budget>>

\* one pass of the loop of Transaction.close: a send with a default branch
\* on the next observer channel, which succeeds only if the observer is
\* waiting on it; the loop ends after the last channel
Close(p) ==
  /\ call[p].pc = "close"
  /\ LET f == call[p]
         t == f.tx
         chans == txs[t].done
     IN IF f.idx > Len(chans)
          THEN /\ SetCall(p, [f EXCEPT !.pc = "d_cls"])
               /\ txs' = [txs EXCEPT ![t].term = Append(@, CloseValue(f))]
               /\ UNCHANGED obs
          ELSE /\ SetCall(p, [f EXCEPT !.idx = @ + 1])
               /\ obs' = IF obs[chans[f.idx]].pc = "recv"
                           THEN [obs EXCEPT ![chans[f.idx]] =
                                   [@ EXCEPT !.pc = "got",
                                             !.got = Append(@, CloseValue(f))]]
                           ELSE obs
               /\ UNCHANGED txs
  /\ UNCHANGED <<fixedVars, clientVars, budget>>

\* the goroutines inside an owner's Commit or Rollback of t
Ending(t) == {p \in Procs : /\ call[p].op \in {"Commit", "Rollback"}
                            /\ call[p].tx = t
                            /\ call[p].pc # "done"}

\* Transaction.Done: under t.mu.Lock a new unbuffered channel is appended
\* (the observers are alike, so they are numbered in the order they register)
ObsDone(o) ==
  /\ obs[o].pc = "idle"
  /\ \A q \in Observers : q < o => obs[q].pc # "idle"
  /\ \E t \in DOMAIN txs :
       /\ Closing(t) = {}
       /\ txs' = [txs EXCEPT ![t].done = Append(@, o)]
       /\ obs' = [obs EXCEPT ![o] = [@ EXCEPT !.pc = "has", !.tx = t,
                                              !.early = Ending(t) = {} /\ ~txs[t].sqlDone,
                                              !.late = txs[t].term # <<>>]]
  /\ UNCHANGED <<fixedVars, clientVars, call, budget>>

\* the observer starts to receive from its channel
ObsRecv(o) ==
  /\ obs[o].pc = "has"
  /\ obs' = [obs EXCEPT ![o].pc = "recv"]
  /\ UNCHANGED <<fixedVars, clientVars, txs, call, budget>>

\* ------------------------------------------------- the per-call timeout
\* the deadline of context.WithTimeout(ctx, config.Timeout) passes while
\* the call waits for its ticket or is in its driver calls
Expire(p) ==
  /\ config.Timeout > 0
  /\ call[p].op \in Statements \cup TxStatements
  /\ call[p].pc \in {"start", "driver"}
  /\ ~call[p].expired
  /\ SetCall(p, [call[p] EXCEPT !.expired = TRUE])
  /\ UNCHANGED <<fixedVars, clientVars, txs, obs, budget>>

\* -------------------------------------------------- the sample consumer
\* the goroutine that receives from Client.SamplesChan()
Consume(c) ==
  /\ sampleChan[c] > 0
  /\ consumed < MaxConsumed
  /\ sampleChan' = [sampleChan EXCEPT ![c] = @ - 1]
  /\ consumed' = consumed + 1
  /\ UNCHANGED <<config, replica, relaySize, active, relayChan,
                 inProgressQueries, totalSuccessQueries, totalFailedQueries,
                 txs, call, obs, budget>>

\* -------------------------------------------------------- specifications
\* a goroutine calls Exec, Query, MultiQuery, Begin, Commit or Rollback, or
\* Exec, Query, MultiQuery of a transaction
Enter(p) == CallStmt(p) \/ CallBegin(p) \/ CallEnd(p) \/ CallTxStmt(p)

\* a step inside Begin
BeginStep(p) ==
  \/ LimitInc(p)
  \/ LimitChk(p)
  \/ RelayStart(p)
  \/ BeginTx(p)
  \/ Sample(p)
  \/ ConditionalEnd(p)
  \/ BeginReturn(p)

\* a step inside Commit or Rollback
EndStep(p) ==
  \/ EndTx(p)
  \/ Sample(p)
  \/ Close(p)
  \/ DeferClassify(p)
  \/ DeferEnd(p)
  \/ DeferDec(p)

\* a step inside Exec, Query or MultiQuery
StmtStep(p) ==
  \/ Attempt(p)
  \/ Decode(p)

\* a step inside Exec, Query or MultiQuery of a transaction
TxStmtStep(p) ==
  \/ TxAttempt(p)
  \/ Sample2(p)

Step(p) == BeginStep(p) \/ EndStep(p) \/ StmtStep(p) \/ TxStmtStep(p)

Next == \E p \in Procs : Enter(p) \/ Step(p)

\* concurrent callers of every handler
Spec == Init /\ [][Next]_vars

\* one caller of every handler, under every retry policy and queue limit,
\* with and without a replica
SoloInit ==
  InitWith(RetryConfigs \cup LimitConfigs, {NoReplica, "replica"}, {1}, MaxCalls)
SoloSpec == SoloInit /\ [][Next]_vars

\* the single caller runs on whenever it can: the Go scheduler runs every
\* goroutine that is not blocked
SoloLive == SoloSpec /\ \A p \in Procs : WF_vars(Step(p))

\* two concurrent callers of Exec, Query, MultiQuery and Begin on a relay of
\* size 0 and on one of size 10
PoolConfigs == { NewConfig(FALSE, 0, DefaultMaxQueuedQueries, open) : open \in {0, 1} }
PoolCallers == {p \in Procs : p <= 2}
PoolInit == InitWith(PoolConfigs, {NoReplica}, PoolCallers, MaxCalls)
PoolNext ==
  \E p \in Procs :
    \/ CallStmt(p)
    \/ CallBegin(p)
    \/ BeginStep(p)
    \/ StmtStep(p)
    \/ DeferEnd(p)
    \/ DeferDec(p)
    \/ DeferClassify(p)
PoolSpec == PoolInit /\ [][PoolNext]_vars

\* one caller of every handler, whose per-call deadline may pass
WaitInit == InitWith(LimitConfigs, {NoReplica}, {1}, MaxCalls)
WaitNext == Next \/ \E p \in Procs : Expire(p)
WaitSpec == WaitInit /\ [][WaitNext]_vars

\* the caller runs on whenever it can, and the timer of its context fires
WaitLive ==
  /\ WaitSpec
  /\ \A p \in Procs : WF_vars(Step(p)) /\ WF_vars(Expire(p))

\* one goroutine that only opens transactions, one more than a relay of
\* MaxOpenConns = 1 has tickets, under the default queue limit
BeginCalls == RelayMultiplier + 1
BeginConfig == NewConfig(FALSE, 0, DefaultMaxQueuedQueries, 1)
BeginInit == InitWith({BeginConfig}, {NoReplica}, {1}, BeginCalls)
BeginNext == \E p \in Procs : CallBegin(p) \/ BeginStep(p)
BeginSpec == BeginInit /\ [][BeginNext]_vars

\* one goroutine that calls Exec, Query and MultiQuery, each call publishing
\* one sample, two calls more than the sample channel holds, and the
\* consumer of the samples
SampleCalls == SampleChanCap + 2
SampleInit == InitWith({BeginConfig}, {NoReplica}, {1}, SampleCalls)
SampleNext ==
  \/ \E p \in Procs :
       \/ CallStmt(p)
       \/ LimitInc(p)
       \/ LimitChk(p)
       \/ RelayStart(p)
       \/ StmtStep(p)
       \/ Sample(p)
       \/ DeferEnd(p)
       \/ DeferDec(p)
       \/ DeferClassify(p)
  \/ \E c \in Clients : Consume(c)
SampleSpec == SampleInit /\ [][SampleNext]_vars

\* one goroutine that owns transactions, and the observers of them
TxConfig == NewConfig(FALSE, 0, 1, 1)
TxInit == InitWith({TxConfig}, {NoReplica}, {1}, TxCalls)
TxNext ==
  \/ \E p \in Procs : CallBegin(p) \/ CallEnd(p) \/ BeginStep(p) \/ EndStep(p)
  \/ \E o \in Observers : ObsDone(o)
  \/ \E o \in Observers : ObsRecv(o)
TxSpec == TxInit /\ [][TxNext]_vars

\* a handler that has been entered runs on, and an observer that holds a
\* channel does receive from it: the Go scheduler runs every goroutine that
\* can run
TxLive ==
  /\ TxSpec
  /\ \A p \in Procs : WF_vars(BeginStep(p) \/ EndStep(p))
  /\ \A o \in Observers : WF_vars(ObsRecv(o))


\* one goroutine that begins a transaction and ends it, the observers of
\* the transaction, and the scheduler running whatever can run
CloseInit == InitWith({TxConfig}, {NoReplica}, {1}, MaxCalls)
CloseSpec == CloseInit /\ [][TxNext]_vars
CloseLive ==
  /\ CloseSpec
  /\ \A p \in Procs : WF_vars(BeginStep(p) \/ EndStep(p))
  /\ \A o \in Observers : WF_vars(ObsRecv(o))

\* ================================================================ claims
Card(S) == Cardinality(S)
Deadlock(e) == IsErrorCode(e, ErrMySQLDeadlock)

\* calls that have incremented the in-progress counter and have neither
\* decremented it nor returned
InFlight(c) ==
  {p \in Procs : /\ call[p].cl = c
                 /\ \/ /\ call[p].op \in Statements
                       /\ call[p].pc \in {"limit_chk", "start", "driver", "sample",
                                          "decode", "d_end", "d_dec"}
                    \/ /\ call[p].op = "Begin"
                       /\ call[p].pc \in {"limit_chk", "start", "driver", "sample",
                                          "d_cond", "d_begin"}}

\* calls that have returned from relay.start() and not yet run their release
Admitted(c) ==
  {p \in Procs : /\ call[p].cl = c
                 /\ call[p].op \in Statements \cup {"Begin"}
                 /\ call[p].pc \in {"driver", "sample", "decode", "d_end", "d_cond"}}

TxOf(c) == {t \in DOMAIN txs : txs[t].client = c}
OpenTx(c) == {t \in TxOf(c) : ~txs[t].sqlDone}

\* C1: a transaction that Begin returned keeps its relay ticket until its
\* Commit or Rollback releases it, and a Begin whose BeginTx succeeded does
\* not release the ticket it acquired (its only relay operation is start).
C1_TicketHeldByTransaction ==
  /\ \A c \in Clients :
       relayChan[c] >= Card({t \in TxOf(c) : txs[t].ends = 0})
  /\ \A p \in Procs :
       (/\ call[p].op = "Begin"
        /\ call[p].pc \in {"d_begin", "done"}
        /\ call[p].ctx = NoTx
        /\ call[p].rerr = Nil) => call[p].relayOps = 1

\* C2: at every moment the in-progress counter of a client equals the number
\* of its calls in flight plus the number of its transactions that no Commit
\* or Rollback has finished; so it is 0 when nothing runs and nothing is open.
C2_InProgressBalanced ==
  \A c \in Clients :
    inProgressQueries[c] =
      Card(InFlight(c)) + Card({t \in TxOf(c) : txs[t].decs = 0})

\* C3: the calls admitted by the relay plus the open transactions are never
\* more than the relay's capacity, and while they are as many as the
\* capacity the relay is full, so a further start() waits.
C3_AdmittedWithinCapacity ==
  \A c \in Clients :
    /\ Card(Admitted(c)) + Card(OpenTx(c)) <= relaySize[c]
    /\ Card(Admitted(c)) + Card(OpenTx(c)) >= relaySize[c]
         => relayChan[c] >= relaySize[c]

\* C4: for every transaction the ticket release, the in-progress decrement
\* and the observer fan-out of Commit/Rollback each happen at most once.
C4_TerminalOnce ==
  \A t \in DOMAIN txs :
    /\ txs[t].ends <= 1
    /\ txs[t].decs <= 1
    /\ Len(txs[t].term) <= 1

\* the first terminal call of t was a Commit that succeeded
CommittedOk(t) == txs[t].term # <<>> /\ txs[t].term[1] = Nil

\* C5: an observer registered before a Commit that succeeds eventually has
\* received nil from its channel, exactly once.
C5_ObserversGetNil ==
  \A o \in Observers :
    (obs[o].early /\ CommittedOk(obs[o].tx)) ~> (obs[o].got = <<Nil>>)

\* C6: an observer registered after the transaction was committed or rolled
\* back eventually receives the terminal result from its channel.
C6_LateObserverGetsResult ==
  \A o \in Observers : obs[o].late ~> (obs[o].got # <<>>)

\* C7: in Exec and Query no driver attempt follows an attempt that succeeded
\* or failed with a non-deadlock error; and when every attempt failed with a
\* deadlock the call made RetryOnDeadlockCount + 1 attempts if RetryOnDeadlock
\* is set and 1 if not, and returns the last failure.
LoopOver(f) == f.pc \in {"sample", "decode", "d_end", "d_dec", "d_cls", "done"}
AllDeadlock(f) == f.tries # <<>> /\ \A k \in 1..Len(f.tries) : Deadlock(f.tries[k])

C7_RetryAttempts ==
  \A p \in Procs :
    LET f == call[p] IN
    f.op \in {"Exec", "Query"} =>
      /\ \A k \in 1..(Len(f.tries) - 1) : Deadlock(f.tries[k])
      /\ (LoopOver(f) /\ AllDeadlock(f)) =>
           Len(f.tries) = IF config.RetryOnDeadlock
                            THEN config.RetryOnDeadlockCount + 1 ELSE 1
      /\ (f.pc = "done" /\ AllDeadlock(f)) => f.rerr = f.tries[Len(f.tries)]

C7_Witness ==
  \E p \in Procs :
    /\ call[p].op \in {"Exec", "Query"}
    /\ call[p].pc = "done"
    /\ AllDeadlock(call[p])
    /\ config.RetryOnDeadlock
    /\ config.RetryOnDeadlockCount >= 1
    /\ Len(call[p].tries) = config.RetryOnDeadlockCount + 1

\* C8: a call of Exec, Query, MultiQuery or Begin that found the in-progress
\* count minus MaxOpenConns above MaxQueuedQueries returns ErrQueueOverloaded
\* and has made no relay operation and no driver call.
PastLimit(f) ==
  /\ f.op \in Statements \cup {"Begin"}
  /\ f.pc \notin {"idle", "limit_inc", "limit_chk"}
  /\ f.ctx = NoTx

C8_OverloadRejects ==
  \A p \in Procs :
    LET f == call[p] IN
    (PastLimit(f) /\ f.seen - config.MaxOpenConns > config.MaxQueuedQueries) =>
      /\ f.rerr = ErrQueueOverloaded
      /\ f.relayOps = 0
      /\ f.tries = <<>>

C8_Witness ==
  \E p \in Procs :
    /\ call[p].op \in Statements \cup {"Begin"}
    /\ call[p].ctx = NoTx
    /\ call[p].pc = "done"
    /\ call[p].seen = 2
    /\ call[p].rerr = ErrQueueOverloaded
    /\ call[p].relayOps = 0
    /\ call[p].tries = <<>>
    /\ OpenTx(call[p].cl) # {}

\* C9: every step of a Commit or Rollback whose context carries a
\* transaction returns nil at once and changes no relay, counter, sample
\* channel, transaction or observer.
C9_InheritedEndIsNoOp ==
  [][\A p \in Procs :
       (/\ call'[p] # call[p]
        /\ call'[p].op \in {"Commit", "Rollback"}
        /\ call'[p].ctx # NoTx)
       => /\ call'[p].pc = "done"
          /\ call'[p].rerr = Nil
          /\ call'[p].tries = <<>>
          /\ UNCHANGED <<clientVars, txs, obs>>]_vars

C9_Witness ==
  \E p \in Procs, o \in Observers :
    /\ call[p].op \in {"Commit", "Rollback"}
    /\ call[p].ctx # NoTx
    /\ call[p].pc = "done"
    /\ ~txs[call[p].tx].sqlDone
    /\ txs[call[p].tx].term = <<>>
    /\ obs[o].tx = call[p].tx
    /\ obs[o].pc = "recv"

\* C10: every step of a Begin whose context carries an open transaction
\* returns that transaction with a nil error and changes no relay, counter,
\* sample channel or transaction.
C10_BeginReturnsContextTx ==
  [][\A p \in Procs :
       (/\ call'[p] # call[p]
        /\ call'[p].op = "Begin"
        /\ call'[p].ctx # NoTx
        /\ ~txs[call'[p].ctx].sqlDone)
       => /\ call'[p].pc = "done"
          /\ call'[p].tx = call'[p].ctx
          /\ call'[p].rerr = Nil
          /\ UNCHANGED <<clientVars, txs>>]_vars

C10_Witness ==
  \E p \in Procs :
    /\ call[p].op = "Begin"
    /\ call[p].ctx # NoTx
    /\ call[p].pc = "done"
    /\ call[p].tx = call[p].ctx
    /\ ~txs[call[p].tx].sqlDone
    /\ Len(txs) = 1
    /\ budget = 0

\* C11: a Rollback whose driver rollback succeeded sends ErrRollback to the
\* observers and returns nil; one whose driver rollback failed sends that
\* error to the observers and returns it.
C11_RollbackFanOut ==
  [][\A p \in Procs :
       (/\ call[p].op = "Rollback"
        /\ call[p].pc = "close"
        /\ call'[p] # call[p])
       => LET t == call[p].tx
              out == call[p].tries[1]
              sent == IF out = Nil THEN ErrRollback ELSE out
          IN /\ \A o \in Observers :
                  obs'[o] # obs[o] => obs'[o].got = Append(obs[o].got, sent)
             /\ txs'[t].term # txs[t].term
                  => txs'[t].term = Append(txs[t].term, sent)
             /\ call'[p].rerr = out]_vars

C11_Witness ==
  \E p \in Procs, o \in Observers :
    /\ call[p].op = "Rollback"
    /\ call[p].pc = "done"
    /\ call[p].ctx = NoTx
    /\ call[p].tries = <<Nil>>
    /\ call[p].rerr = Nil
    /\ obs[o].tx = call[p].tx
    /\ obs[o].got = <<ErrRollback>>

\* C12: stats.sample never blocks: a call that has reached it can always
\* take the step; the sample channel never holds more than its capacity;
\* and a sample offered to a full channel leaves the channel as it was,
\* while one offered to a channel with room is queued.
C12_SampleNeverBlocks ==
  /\ [](\A c \in Clients : sampleChan[c] <= SampleChanCap)
  /\ [](\A p \in Procs : call[p].pc = "sample" => ENABLED Sample(p))
  /\ [][\A p \in Procs :
         (call[p].pc = "sample" /\ call'[p] # call[p])
         => /\ call'[p].pc # "sample"
            /\ sampleChan'[call[p].cl] =
                 IF sampleChan[call[p].cl] = SampleChanCap
                   THEN sampleChan[call[p].cl]
                   ELSE sampleChan[call[p].cl] + 1]_vars

\* the channel is full although the consumer took samples, and the last
\* samples offered were dropped
C12_Witness ==
  \E p \in Procs :
    /\ call[p].pc = "done"
    /\ call[p].tries # <<>>
    /\ budget = 0
    /\ consumed > 0
    /\ sampleChan[call[p].cl] = SampleChanCap

\* C13: a caller that waits in relay.start() eventually gets its ticket and
\* goes on, for every pool size SetConfig accepts.
C13_StartReturns ==
  \A p \in Procs : (call[p].pc = "start") ~> (call[p].pc # "start")

\* C14: relay.end() never blocks: a call that has reached it can always
\* take the step; and the step removes exactly one ticket when the pool
\* holds one and leaves the pool as it is when it holds none.
C14_EndNeverBlocks ==
  /\ [](\A p \in Procs :
          /\ call[p].pc = "d_end" => ENABLED DeferEnd(p)
          /\ call[p].pc = "d_cond" => ENABLED ConditionalEnd(p))
  /\ [][\A p \in Procs :
         (call[p].pc \in {"d_end", "d_cond"} /\ call'[p] # call[p])
         => /\ call'[p].pc \notin {"d_end", "d_cond"}
            /\ relayChan'[call[p].cl] =
                 IF relayChan[call[p].cl] > 0
                   THEN relayChan[call[p].cl] - 1
                   ELSE relayChan[call[p].cl]]_vars

\* a Commit or Rollback has run end() on a pool that held no ticket
C14_Witness ==
  \E p \in Procs :
    /\ call[p].op \in {"Commit", "Rollback"}
    /\ call[p].pc = "d_dec"
    /\ call[p].relayOps = 1
    /\ relayChan[call[p].cl] = 0
    /\ relaySize[call[p].cl] > 0

\* C15: the number of tickets in the relay pool is never below 0 and never
\* above the capacity SetConfig gave it, MaxOpenConns * 10.
C15_TicketsWithinCapacity ==
  \A c \in Clients :
    /\ relayChan[c] >= 0
    /\ relayChan[c] <= relaySize[c]
    /\ relaySize[c] = config.MaxOpenConns * RelayMultiplier

\* two calls hold a ticket each at the same time
C15_Witness ==
  \E c \in Clients :
    /\ relayChan[c] = 2
    /\ Card(Admitted(c)) = 2
    /\ relaySize[c] = RelayMultiplier

\* C16: Transaction.Query and Transaction.Exec make one driver attempt
\* whatever it answers, return a deadlock error to the caller, and no step
\* of theirs touches the relay or the in-progress counter.
C16_TxStatementsOneAttempt ==
  /\ [](\A p \in Procs :
          LET f == call[p] IN
          f.op \in {"TxExec", "TxQuery"} =>
            /\ Len(f.tries) <= 1
            /\ f.pc # "driver" => Len(f.tries) = 1
            /\ f.relayOps = 0
            /\ (f.pc = "done" /\ f.tries[1] # Nil) => f.rerr = f.tries[1])
  /\ [][\A p \in Procs :
         (call'[p] # call[p] /\ call'[p].op \in {"TxExec", "TxQuery"})
         => UNCHANGED <<relayChan, inProgressQueries>>]_vars

\* under a configuration that retries deadlocks, a statement of a
\* transaction has returned the deadlock of its only attempt
C16_Witness ==
  \E p \in Procs :
    /\ call[p].op \in {"TxExec", "TxQuery"}
    /\ call[p].pc = "done"
    /\ call[p].tries = <<MySQLError(ErrMySQLDeadlock)>>
    /\ call[p].rerr = MySQLError(ErrMySQLDeadlock)
    /\ config.RetryOnDeadlock
    /\ config.RetryOnDeadlockCount >= 1

\* C17: a call of Exec, Query or MultiQuery, of the client or of a
\* transaction, that returns an error has been counted as failed, and one
\* that returns nil has been counted as succeeded.
C17_CountedAsReturned ==
  \A p \in Procs :
    LET f == call[p] IN
    (f.op \in Statements \cup TxStatements /\ f.pc = "done") =>
      f.counted = IF f.rerr # Nil THEN "failed" ELSE "success"

\* C18: a call of Exec, Query or MultiQuery that waits in relay.start()
\* when its timeout expires stops waiting.
C18_WaitEndsAtTimeout ==
  \A p \in Procs :
    (call[p].pc = "start" /\ call[p].expired) ~> (call[p].pc # "start")

\* C19: with a replica attached, a Query or MultiQuery (Call and MultiCall
\* are these two) runs on the replica and, when it is the first call made,
\* leaves the relay, the counters and the sample channel of the primary as
\* they were; an Exec runs on the primary.
C19_QueriesRunOnReplica ==
  \A p \in Procs :
    LET f == call[p] IN
    replica # NoReplica =>
      /\ f.op \in {"Query", "MultiQuery"} =>
            /\ f.cl = replica
            /\ budget = MaxCalls - 1 =>
                 /\ relayChan["primary"] = 0
                 /\ inProgressQueries["primary"] = 0
                 /\ totalSuccessQueries["primary"] = 0
                 /\ totalFailedQueries["primary"] = 0
                 /\ sampleChan["primary"] = 0
      /\ f.op = "Exec" => f.cl = "primary"

\* C20: a MultiQuery whose driver answer holds k result sets that all
\* decode returns k Results, the j-th built from the j-th result set, and
\* Count() is k.
C20_OneResultPerSet ==
  \A p \in Procs :
    LET f == call[p] IN
    (/\ f.op \in MultiStatements
     /\ f.pc \in {"d_end", "d_dec", "d_cls", "done"}
     /\ f.sets >= 1
     /\ f.rerr = Nil) =>
      /\ f.results = [j \in 1..f.sets |-> j]
      /\ Count(f.results) = f.sets

C20_Witness ==
  \E p \in Procs :
    /\ call[p].op = "MultiQuery"
    /\ call[p].pc = "done"
    /\ call[p].sets = 3
    /\ call[p].rerr = Nil
    /\ call[p].results = <<1, 2, 3>>

\* C21: a Commit or Rollback called by the owner with a context that carries
\* the receiver itself is not skipped: when it has returned, the driver
\* commit/rollback has run, the ticket release has run and the observers
\* have been notified.
C21_OwnContextRuns ==
  \A p \in Procs :
    LET f == call[p] IN
    (/\ f.op \in {"Commit", "Rollback"}
     /\ f.pc = "done"
     /\ f.ctx = f.tx) =>
      /\ f.tries # <<>>
      /\ txs[f.tx].sqlDone
      /\ txs[f.tx].ends >= 1
      /\ txs[f.tx].term # <<>>

\* C22: when an observer has received the terminal result of a transaction,
\* the Commit or Rollback that sent it has already released the ticket,
\* counted its outcome as succeeded or failed, and decremented the
\* in-progress counter.
C22_NotifiedAfterRelease ==
  \A o \in Observers :
    obs[o].got # <<>> =>
      LET t == obs[o].tx
          c == txs[t].client
      IN /\ txs[t].ends >= 1
         /\ txs[t].decs >= 1
         /\ totalSuccessQueries[c] + totalFailedQueries[c] >= 1

\* C23: a call of Exec, Query or MultiQuery that has left its retry loop
\* after n driver attempts has slept n - 1 times: the delay comes between
\* attempts and never after the last one.
C23_DelayOnlyBetweenAttempts ==
  \A p \in Procs :
    LET f == call[p] IN
    (f.op \in Statements /\ LoopOver(f) /\ f.tries # <<>>) =>
      f.sleeps = Len(f.tries) - 1

\* C24: the fan-out of Commit and Rollback never waits for an observer: a
\* call inside close can always take its next step, a pass of the loop that
\* meets an observer that is not receiving changes no observer and moves on
\* to the next channel, and the call goes on to return.
C24_FanOutNeverBlocks ==
  /\ [](\A p \in Procs : call[p].pc = "close" => ENABLED Close(p))
  /\ [][\A p \in Procs :
         (call[p].pc = "close" /\ call'[p] # call[p])
         => LET f == call[p]
                chans == txs[f.tx].done
            IN /\ f.idx <= Len(chans) =>
                    /\ call'[p].idx = f.idx + 1
                    /\ obs[chans[f.idx]].pc # "recv" => obs' = obs
               /\ f.idx > Len(chans) => call'[p].pc # "close"
               /\ txs'[f.tx].done = chans]_vars
  /\ \A p \in Procs : (call[p].pc = "close") ~> (call[p].pc = "done")

\* a Commit or Rollback has returned although none of the two observers of
\* its transaction was receiving: both were skipped
C24_Witness ==
  \E p \in Procs :
    /\ call[p].op \in {"Commit", "Rollback"}
    /\ call[p].ctx = NoTx
    /\ call[p].pc = "done"
    /\ Len(txs[call[p].tx].done) = 2
    /\ \A k \in 1..2 :
         /\ obs[txs[call[p].tx].done[k]].got = <<>>
         /\ obs[txs[call[p].tx].done[k]].early

\* C25: a call is rejected with ErrQueueOverloaded only if, when it made
\* its check, the other calls that had passed the check and were still in
\* progress, plus the open transactions, were at least MaxOpenConns +
\* MaxQueuedQueries; calls that are rejected do not count.
C25_OnlyExcessRejected ==
  \A p \in Procs :
    LET f == call[p] IN
    (PastLimit(f) /\ f.rerr = ErrQueueOverloaded) =>
      f.others >= config.MaxOpenConns + config.MaxQueuedQueries

\* C26: a call of Exec, Query, MultiQuery, Begin, Commit or Rollback, of
\* the client or of a transaction, that has returned has offered exactly one
\* sample to the sample channel if it reached the driver, and none if it
\* did not.
C26_OneSamplePerCall ==
  \A p \in Procs :
    LET f == call[p] IN
    (f.pc = "done" /\ f.op # "none") =>
      f.offered = IF f.tries # <<>> THEN 1 ELSE 0

====
